---- MODULE Spec2Model ----
(***************************************************************************)
(* State-machine model of the voice session of src/index.tsx: the session  *)
(* controller (startConversation / stopConversation and the transport      *)
(* callbacks), the playback scheduler (playAudioChunk /                    *)
(* interruptAndClearAudioQueue), the frame classifier (onaudioprocess) and *)
(* the turn accumulators (onmessage).                                      *)
(*                                                                         *)
(* One action is one browser task: the handler that the task runs together *)
(* with the promise continuations (microtasks) it queues, which the event  *)
(* loop runs before any other task.  A continuation that waits on a        *)
(* promise that is still pending is kept in `waiters` and runs in the task *)
(* that settles the promise.                                               *)
(***************************************************************************)
EXTENDS Integers, Sequences, FiniteSets, TLC

\* ------------------------------------------------------------------ bounds
MaxStarts   == 1     \* startConversation calls in one behaviour of Spec, SpecPlayback
MaxRestarts == 2     \* startConversation calls in one behaviour of SpecRestart
MaxWaiters  == 2     \* continuations parked on one pending session promise
MaxStreak   == 2     \* cap of the two VAD streak counters in the session model
MaxText    == 1      \* characters held by the two turn accumulators together
MaxLog     == 1      \* entries of the transcript log
MaxTurnText == 2     \* characters held by the two turn accumulators, turn model
MaxUnits   == 1      \* sources in the live set, session model
MaxQueue   == 2      \* sources in the live set, playback model
MaxClock   == 2      \* ticks of the audio clock
MaxFrames  == 15    \* frames of one kind in a row, VAD model
MaxTools   == 1      \* onmessage handlers suspended in generateImage
MaxSends   == 3      \* capture frames handed to the transport, frame model
MaxSpread  == 20     \* sample steps taken around -1, 0 and 1, createBlob model
MaxRetries == 2      \* the `retries` argument of retryWithBackoff

Ids == 1..(IF MaxStarts > MaxRestarts THEN MaxStarts ELSE MaxRestarts)

NodeKinds == {"inputGainNode", "scriptProcessor", "mediaStreamSource", "analyser"}

\* ------------------------------------------------------------------ VAD_THRESHOLDS
VAD_THRESHOLDS ==
  [low    |-> [speechBuffers |-> 3, silenceBuffers |-> 8],
   medium |-> [speechBuffers |-> 2, silenceBuffers |-> 10],
   high   |-> [speechBuffers |-> 2, silenceBuffers |-> 15]]

VadSensitivity == {"low", "medium", "high"}

\* no frame delivered since the VAD state was reset
NoRun == [speaking |-> FALSE, n |-> 0]

VARIABLES
  connectionState,          \* useState<ConnectionState>
  error,                    \* useState<string | null>: "none" is null
  transcript,               \* useState<ConversationTurn[]>
  apiKey,                   \* process.env.API_KEY is set
  vadSensitivity,           \* useState<VadSensitivity>
  mounted,                  \* the component is mounted
  audioDevicesKnown,        \* audioDevices.length > 0
  starts,                   \* position of every startConversation call
  streamRef, sessionPromiseRef,
  inputAudioContextRef, outputAudioContextRef,
  mediaStreamSourceRef, inputGainNodeRef, analyserRef, scriptProcessorRef,
  tracks,                   \* per MediaStream: "none" | "live" | "stopped"
  trackStops,               \* per MediaStream: number of track.stop() calls
  inputCtx, outputCtx,      \* per AudioContext: "none" | "open" | "closed"
  nodes,                    \* per node kind and graph: "none" | "connected" | "disconnected"
  nodeDisconnects,          \* per node kind and graph: number of disconnect() calls
  promise,                  \* per session promise: "none" | "pending" | "resolved" | "rejected"
  transport,                \* per session: "none" | "connecting" | "open" | "errored" | "closing" | "closed"
  closeCalls,               \* per session: number of session.close() calls
  waiters,                  \* per session promise: continuations parked on it
  vadStateRef, speechConsecutiveBuffersRef, silenceConsecutiveBuffersRef,
  currentInputTranscriptionRef, currentOutputTranscriptionRef,
  nextStartTimeRef, audioSourcesRef,
  animationFrameIdRef,      \* 0 is null; else the draw loop whose
                            \*   requestAnimationFrame call returned the id
  rafPending,               \* the draw loops whose requested frame is pending
  canvasDrawn,              \* the visualizer has drawn on the canvas since
                            \*   the canvas was last cleared
  now,                      \* wall-clock time, in playback time units
  ctxBorn,                  \* per output AudioContext: the time it was created
  pendingTool,              \* onmessage handlers suspended in `await generateImage`
  data,                     \* createBlob: the Float32Array, in sample steps
  int16,                    \* createBlob: the Int16Array it filled
  retry,                    \* the call of retryWithBackoff: its argument
                            \*   retries, its local attempt, its position
                            \*   (at), the error it threw, and the history of
                            \*   the results of fn
  cooldown,                 \* Date.now() < globalRateLimitCooldownUntil
  consecutiveRateLimitErrors,
  ev                        \* history: what the last task did
                            \*   op: the task; from: connectionState before it;
                            \*   idle: before it the session was idle and held nothing;
                            \*   fin / thr: stopConversation calls that ran to
                            \*     their end / rejected in it;
                            \*   stops: the run of consecutive user stops before it;
                            \*   stream, graph, ictx, octx: the stream, the capture
                            \*     graph and the contexts held when that run began;
                            \*   stopped: stopConversation was called since the
                            \*     latest startConversation;
                            \*   gap: playAudioChunk scheduled a unit in the task
                            \*     with the cursor behind the clock and not 0;
                            \*   cleared / many: interruptAndClearAudioQueue ran in
                            \*     the task / and stopped two sources or more;
                            \*   run: the kind and the number of the consecutive
                            \*     frames of one kind delivered last since the VAD
                            \*     state was reset; brk: the frame of the task
                            \*     ended a run of the other kind; flip: it
                            \*     changed vadStateRef;
                            \*   turnIn / turnOut: the input / output transcription
                            \*     deltas received since the latest turnComplete
                            \*     and the latest startConversation; flush: their
                            \*     trimmed texts when the task handled turnComplete;
                            \*   frames: the capture frames numbered so far;
                            \*     handed: the number of the frame the task
                            \*     passed to sessionPromiseRef.then, with the VAD
                            \*     state at that point; sent: the
                            \*     sendRealtimeInput calls made so far, each with
                            \*     its session and the number of its frame;
                            \*   lastEnd: start plus duration of the unit
                            \*     scheduled last since the cursor was last reset

sessionVars == <<connectionState, error, transcript, apiKey, vadSensitivity, mounted,
          audioDevicesKnown, starts, streamRef, sessionPromiseRef,
          inputAudioContextRef, outputAudioContextRef, mediaStreamSourceRef,
          inputGainNodeRef, analyserRef, scriptProcessorRef, tracks, trackStops,
          inputCtx, outputCtx, nodes, nodeDisconnects, promise, transport,
          closeCalls, waiters, vadStateRef, speechConsecutiveBuffersRef,
          silenceConsecutiveBuffersRef, currentInputTranscriptionRef,
          currentOutputTranscriptionRef, nextStartTimeRef, audioSourcesRef,
          animationFrameIdRef, rafPending, canvasDrawn,
          now, ctxBorn, pendingTool, ev>>

vars == <<sessionVars, data, int16, retry, cooldown, consecutiveRateLimitErrors>>

\* ------------------------------------------------------------------ the heap as one record
\* The handlers are sequential code over the refs; they are written as
\* functions from a record of the state to a record of the state.  `mt` is the
\* microtask queue of the running task; `called`, `fin` and `thr` count the
\* stopConversation calls that were made, that ran to their end, and that
\* rejected, in this task.
Cur ==
  [connectionState |-> connectionState, error |-> error, transcript |-> transcript,
   mounted |-> mounted, now |-> now, ctxBorn |-> ctxBorn, pendingTool |-> pendingTool,
   audioDevicesKnown |-> audioDevicesKnown, starts |-> starts,
   streamRef |-> streamRef, sessionPromiseRef |-> sessionPromiseRef,
   inputAudioContextRef |-> inputAudioContextRef,
   outputAudioContextRef |-> outputAudioContextRef,
   mediaStreamSourceRef |-> mediaStreamSourceRef,
   inputGainNodeRef |-> inputGainNodeRef, analyserRef |-> analyserRef,
   scriptProcessorRef |-> scriptProcessorRef,
   tracks |-> tracks, trackStops |-> trackStops,
   inputCtx |-> inputCtx, outputCtx |-> outputCtx,
   nodes |-> nodes, nodeDisconnects |-> nodeDisconnects,
   promise |-> promise, transport |-> transport, closeCalls |-> closeCalls,
   waiters |-> waiters,
   vadStateRef |-> vadStateRef,
   speechConsecutiveBuffersRef |-> speechConsecutiveBuffersRef,
   silenceConsecutiveBuffersRef |-> silenceConsecutiveBuffersRef,
   currentInputTranscriptionRef |-> currentInputTranscriptionRef,
   currentOutputTranscriptionRef |-> currentOutputTranscriptionRef,
   nextStartTimeRef |-> nextStartTimeRef, audioSourcesRef |-> audioSourcesRef,
   animationFrameIdRef |-> animationFrameIdRef, rafPending |-> rafPending,
   canvasDrawn |-> canvasDrawn,
   mt |-> <<>>, called |-> 0, fin |-> 0, thr |-> 0, exc |-> FALSE,
   lastEnd |-> ev.lastEnd, gap |-> FALSE, cleared |-> FALSE, many |-> FALSE,
   run |-> ev.run, brk |-> FALSE, flip |-> FALSE,
   turnIn |-> ev.turnIn, turnOut |-> ev.turnOut, flush |-> <<>>,
   frames |-> ev.frames, handed |-> <<>>, sent |-> ev.sent]

\* ------------------------------------------------------------------ playback scheduler
Max(a, b) == IF a >= b THEN a ELSE b

NoStart == -1        \* no scheduled start

\* interruptAndClearAudioQueue without the reset of the cursor
interruptAndClearAudioQueue_KeepsCursor(r) ==
  [r EXCEPT !.audioSourcesRef = {},
            !.pendingTool = [i \in DOMAIN @ |-> [@[i] EXCEPT !.intr = TRUE]],
            !.lastEnd = NoStart, !.cleared = TRUE,
            !.many = (@ \/ Cardinality(r.audioSourcesRef) >= 2)]

\* interruptAndClearAudioQueue: source.stop() for every source of the set,
\* clear the set, reset the cursor.
\* (`intr` of a suspended onmessage handler is history: an interruption ran
\* after its message was received.)
interruptAndClearAudioQueue(r) ==
  [r EXCEPT !.audioSourcesRef = {}, !.nextStartTimeRef = 0,
            !.pendingTool = [i \in DOMAIN @ |-> [@[i] EXCEPT !.intr = TRUE]],
            !.lastEnd = NoStart, !.cleared = TRUE,
            !.many = (@ \/ Cardinality(r.audioSourcesRef) >= 2)]

\* audioCtx.currentTime of output context c
currentTime(r, c) == r.now - r.ctxBorn[c]

NoAudio  == 0        \* the message has no inline audio data
BadAudio == -1       \* inline data on which decode / decodeAudioData throws

\* the source playAudioChunk creates, starts at `start` and adds to the set,
\* and the history of the call.
\* (`recv` is the history of the chunk's receipt: intr: an interruption ran
\* after it; at: the time at which its message arrived.)
Schedule(r, recv, start, audio) ==
  LET audioCtx == r.outputAudioContextRef
      clock == currentTime(r, audioCtx)
      prev == r.nextStartTimeRef
  IN  [r EXCEPT
        !.audioSourcesRef = @ \cup {[ctx |-> audioCtx, start |-> start,
                                     dur |-> audio, at |-> clock,
                                     stale |-> recv.intr, recv |-> recv.at]},
        !.gap = (0 < prev /\ prev < clock),
        !.lastEnd = start + audio]

\* playAudioChunk scheduling at the cursor alone, without the Math.max against
\* audioCtx.currentTime
playAudioChunk_NoResync(r, audio, recv) ==
  IF r.outputAudioContextRef = 0 THEN r
  ELSE
    IF audio = BadAudio THEN [r EXCEPT !.exc = TRUE]
    ELSE [Schedule(r, recv, r.nextStartTimeRef, audio)
            EXCEPT !.nextStartTimeRef = @ + audio]

\* playAudioChunk setting the cursor to audioCtx.currentTime, without the
\* Math.max against the cursor
playAudioChunk_ClockOnly(r, audio, recv) ==
  IF r.outputAudioContextRef = 0 THEN r
  ELSE
    LET r1 == [r EXCEPT !.nextStartTimeRef = currentTime(r, r.outputAudioContextRef)]
    IN  IF audio = BadAudio THEN [r1 EXCEPT !.exc = TRUE]
        ELSE [Schedule(r, recv, r1.nextStartTimeRef, audio)
                EXCEPT !.nextStartTimeRef = r1.nextStartTimeRef + audio]

\* playAudioChunk leaving the cursor at the start of the unit it scheduled
playAudioChunk_NoAdvance(r, audio, recv) ==
  IF r.outputAudioContextRef = 0 THEN r
  ELSE
    LET r1 == [r EXCEPT !.nextStartTimeRef =
                 Max(@, currentTime(r, r.outputAudioContextRef))]
    IN  IF audio = BadAudio THEN [r1 EXCEPT !.exc = TRUE]
        ELSE [Schedule(r, recv, r1.nextStartTimeRef, audio)
                EXCEPT !.nextStartTimeRef = r1.nextStartTimeRef]

\* (`await decodeAudioData(..)` awaits synchronous code: the continuation is a
\* microtask of the task that called playAudioChunk, so the whole function is
\* one step.)
\* playAudioChunk(base64Audio): `audio` is the duration of the decoded buffer,
\* or BadAudio.
playAudioChunk(r, audio, recv) ==
  IF r.outputAudioContextRef = 0 THEN r
  ELSE
    LET r1 == [r EXCEPT !.nextStartTimeRef =
                 Max(@, currentTime(r, r.outputAudioContextRef))]
    IN  IF audio = BadAudio THEN [r1 EXCEPT !.exc = TRUE]
        ELSE [Schedule(r, recv, r1.nextStartTimeRef, audio)
                EXCEPT !.nextStartTimeRef = r1.nextStartTimeRef + audio]

\* ------------------------------------------------------------------ visualizer
\* The canvas of the speak view is canvasRef.current while the component is
\* mounted.  A draw loop is named after the capture graph whose analyser it
\* reads; the id requestAnimationFrame returns is named after the loop that
\* requested it.
\* draw of loop l: the next frame is requested and its id stored, then the
\* bars are drawn
draw(r, l) ==
  [r EXCEPT !.animationFrameIdRef = l, !.rafPending = @ \cup {l},
            !.canvasDrawn = TRUE]

\* drawVisualizer: the first draw of a new loop
drawVisualizer(r) ==
  IF r.analyserRef = 0 \/ ~r.mounted THEN r
  ELSE draw(r, r.analyserRef)

\* stopVisualizer: the frame whose id is stored is cancelled, the canvas is
\* cleared
stopVisualizer(r) ==
  LET r1 == IF r.animationFrameIdRef # 0
              THEN [r EXCEPT !.rafPending = @ \ {r.animationFrameIdRef},
                             !.animationFrameIdRef = 0]
            ELSE r
  IN  IF r1.mounted THEN [r1 EXCEPT !.canvasDrawn = FALSE] ELSE r1

\* ------------------------------------------------------------------ stopConversation
\* node?.disconnect() for the node a ref holds
DisconnectNode(r, kind, ref) ==
  IF ref = 0 THEN r
  ELSE [r EXCEPT !.nodes[kind][ref] = "disconnected",
                 !.nodeDisconnects[kind][ref] = @ + 1]

\* no handle is held and no device, graph or transport resource is alive
HoldsNothing(r) ==
  /\ r.streamRef = 0 /\ r.sessionPromiseRef = 0
  /\ r.inputAudioContextRef = 0 /\ r.outputAudioContextRef = 0
  /\ r.mediaStreamSourceRef = 0 /\ r.inputGainNodeRef = 0
  /\ r.analyserRef = 0 /\ r.scriptProcessorRef = 0
  /\ \A i \in Ids :
       /\ r.tracks[i] # "live"
       /\ r.inputCtx[i] # "open" /\ r.outputCtx[i] # "open"
       /\ r.transport[i] \notin {"connecting", "open"}
       /\ r.starts[i] \in {"none", "done"}
       /\ \A k \in NodeKinds : r.nodes[k][i] # "connected"

\* stopConversation, "Disconnect and close audio contexts" and the refs set to null
ReleaseGraph(r) ==
  LET r1 == DisconnectNode(r, "inputGainNode", r.inputGainNodeRef)
      r2 == DisconnectNode(r1, "scriptProcessor", r.scriptProcessorRef)
      r3 == DisconnectNode(r2, "mediaStreamSource", r.mediaStreamSourceRef)
      r4 == DisconnectNode(r3, "analyser", r.analyserRef)
      r5 == IF r.inputAudioContextRef = 0 THEN r4
            ELSE [r4 EXCEPT !.inputCtx[r.inputAudioContextRef] = "closed"]
      r6 == IF r.outputAudioContextRef = 0 THEN r5
            ELSE [r5 EXCEPT !.outputCtx[r.outputAudioContextRef] = "closed"]
  IN  [r6 EXCEPT !.scriptProcessorRef = 0, !.mediaStreamSourceRef = 0,
                 !.analyserRef = 0, !.inputAudioContextRef = 0,
                 !.outputAudioContextRef = 0, !.inputGainNodeRef = 0]

\* stopConversation, "Reset state"
ResetState(r) ==
  [r EXCEPT !.vadStateRef = "SILENCE",
            !.speechConsecutiveBuffersRef = 0,
            !.silenceConsecutiveBuffersRef = 0,
            !.connectionState = "idle",
            !.run = NoRun]

\* the code of stopConversation after the `if (sessionPromiseRef.current)` block
StopTail(r) ==
  [ResetState(interruptAndClearAudioQueue(ReleaseGraph(stopVisualizer(r))))
     EXCEPT !.fin = @ + 1]

\* the continuation of `await sessionPromiseRef.current` for a fulfilled promise
StopResume(r, s) ==
  StopTail([r EXCEPT !.closeCalls[s] = @ + 1,
                     !.transport[s] = IF @ = "open" THEN "closing" ELSE @,
                     !.sessionPromiseRef = 0])

\* StopStream leaving the stream in streamRef
StopStream_KeepsRef(r) ==
  IF r.streamRef = 0 THEN r
  ELSE [r EXCEPT !.tracks[r.streamRef] = "stopped",
                 !.trackStops[r.streamRef] = @ + 1]

\* stopConversation: the tracks of the stream are stopped and streamRef cleared
StopStream(r) ==
  IF r.streamRef = 0 THEN r
  ELSE [r EXCEPT !.tracks[r.streamRef] = "stopped",
                 !.trackStops[r.streamRef] = @ + 1,
                 !.streamRef = 0]

\* stopConversation without the `if (sessionPromiseRef.current)` test:
\* session.close() on the undefined session throws
stopConversation_NoGuard(r) ==
  LET r1 == [StopStream(r) EXCEPT !.called = @ + 1]
      s  == r1.sessionPromiseRef
  IN  IF s = 0 THEN [r1 EXCEPT !.mt = Append(@, [k |-> "stopThrow", s |-> s])]
      ELSE CASE r1.promise[s] = "resolved" ->
                  [r1 EXCEPT !.mt = Append(@, [k |-> "stop", s |-> s])]
             [] r1.promise[s] = "rejected" ->
                  [r1 EXCEPT !.mt = Append(@, [k |-> "stopThrow", s |-> s])]
             [] OTHER ->
                  [r1 EXCEPT !.waiters[s] = Append(@, [k |-> "stop", s |-> s])]

\* stopConversation up to its first suspension: the stream, then
\* `await sessionPromiseRef.current`
stopConversation(r) ==
  LET r1 == [StopStream(r) EXCEPT !.called = @ + 1]
      s  == r1.sessionPromiseRef
  IN  IF s = 0 THEN StopTail(r1)
      ELSE CASE r1.promise[s] = "resolved" ->
                  [r1 EXCEPT !.mt = Append(@, [k |-> "stop", s |-> s])]
             [] r1.promise[s] = "rejected" ->
                  [r1 EXCEPT !.mt = Append(@, [k |-> "stopThrow", s |-> s])]
             [] OTHER ->
                  [r1 EXCEPT !.waiters[s] = Append(@, [k |-> "stop", s |-> s])]

\* one microtask: the continuation of stopConversation, or the callback
\* `session => session.sendRealtimeInput({ media: pcmBlob })`
RunMicrotask(r, m) ==
  CASE m.k = "stop"      -> StopResume(r, m.s)
    [] m.k = "stopThrow" -> [r EXCEPT !.thr = @ + 1]
    [] m.k = "send"      -> [r EXCEPT !.sent = Append(@, [s |-> m.s, n |-> m.n])]
    [] OTHER             -> r

\* the microtask checkpoint at the end of a task
RECURSIVE Drain(_)
Drain(r) ==
  IF r.mt = <<>> THEN r
  ELSE Drain(RunMicrotask([r EXCEPT !.mt = Tail(@)], Head(r.mt)))

\* ------------------------------------------------------------------ startConversation
FreshId(f) == Cardinality({i \in Ids : f[i] # "none"}) + 1

\* the catch block of startConversation
StartCatch(r) ==
  stopConversation([r EXCEPT !.error = "start", !.connectionState = "error"])

\* new AudioContext x 2, then ai.live.connect; `outcome` says which
\* constructor throws, if any
CreateContextsAndConnect(r, outcome) ==
  IF outcome = "throwInput" THEN StartCatch(r)
  ELSE
    LET i  == FreshId(r.inputCtx)
        r1 == [r EXCEPT !.inputCtx[i] = "open", !.inputAudioContextRef = i]
    IN  IF outcome = "throwOutput" THEN StartCatch(r1)
        ELSE
          LET o  == FreshId(r1.outputCtx)
              s  == FreshId(r1.promise)
          IN  [r1 EXCEPT !.outputCtx[o] = "open", !.outputAudioContextRef = o,
                         !.ctxBorn[o] = r.now,
                         !.sessionPromiseRef = s,
                         !.promise[s] = "pending", !.transport[s] = "connecting"]

\* ------------------------------------------------------------------ commit
CommitHeap(r, op) ==
  /\ connectionState' = r.connectionState
  /\ error' = r.error
  /\ transcript' = r.transcript
  /\ mounted' = r.mounted
  /\ now' = r.now
  /\ ctxBorn' = r.ctxBorn
  /\ pendingTool' = r.pendingTool
  /\ audioDevicesKnown' = r.audioDevicesKnown
  /\ starts' = r.starts
  /\ streamRef' = r.streamRef
  /\ sessionPromiseRef' = r.sessionPromiseRef
  /\ inputAudioContextRef' = r.inputAudioContextRef
  /\ outputAudioContextRef' = r.outputAudioContextRef
  /\ mediaStreamSourceRef' = r.mediaStreamSourceRef
  /\ inputGainNodeRef' = r.inputGainNodeRef
  /\ analyserRef' = r.analyserRef
  /\ scriptProcessorRef' = r.scriptProcessorRef
  /\ tracks' = r.tracks
  /\ trackStops' = r.trackStops
  /\ inputCtx' = r.inputCtx
  /\ outputCtx' = r.outputCtx
  /\ nodes' = r.nodes
  /\ nodeDisconnects' = r.nodeDisconnects
  /\ promise' = r.promise
  /\ transport' = r.transport
  /\ closeCalls' = r.closeCalls
  /\ waiters' = r.waiters
  /\ vadStateRef' = r.vadStateRef
  /\ speechConsecutiveBuffersRef' = r.speechConsecutiveBuffersRef
  /\ silenceConsecutiveBuffersRef' = r.silenceConsecutiveBuffersRef
  /\ currentInputTranscriptionRef' = r.currentInputTranscriptionRef
  /\ currentOutputTranscriptionRef' = r.currentOutputTranscriptionRef
  /\ nextStartTimeRef' = r.nextStartTimeRef
  /\ audioSourcesRef' = r.audioSourcesRef
  /\ animationFrameIdRef' = r.animationFrameIdRef
  /\ rafPending' = r.rafPending
  /\ canvasDrawn' = r.canvasDrawn
  /\ ev' = [op |-> op, fin |-> r.fin, thr |-> r.thr,
            from |-> connectionState,
            idle |-> (connectionState = "idle" /\ HoldsNothing(Cur)),
            stops |-> CASE op = "stop"    -> ev.stops + 1
                        [] op = "resolve" -> ev.stops
                        [] OTHER          -> 0,
            stream |-> CASE op = "stop" /\ ev.stops = 0 -> streamRef
                         [] op \in {"stop", "resolve"}   -> ev.stream
                         [] OTHER                        -> 0,
            graph |-> CASE op = "stop" /\ ev.stops = 0 -> scriptProcessorRef
                        [] op \in {"stop", "resolve"}   -> ev.graph
                        [] OTHER                        -> 0,
            ictx |-> CASE op = "stop" /\ ev.stops = 0 -> inputAudioContextRef
                       [] op \in {"stop", "resolve"}   -> ev.ictx
                       [] OTHER                        -> 0,
            octx |-> CASE op = "stop" /\ ev.stops = 0 -> outputAudioContextRef
                       [] op \in {"stop", "resolve"}   -> ev.octx
                       [] OTHER                        -> 0,
            gap |-> r.gap, cleared |-> r.cleared, many |-> r.many,
            lastEnd |-> r.lastEnd,
            turnIn |-> r.turnIn, turnOut |-> r.turnOut, flush |-> r.flush,
            run |-> r.run, brk |-> r.brk, flip |-> r.flip,
            frames |-> r.frames, handed |-> r.handed, sent |-> r.sent,
            stopped |-> CASE r.called > 0 -> TRUE
                          [] op = "start" -> FALSE
                          [] OTHER        -> ev.stopped]

\* a task: the handler's record, then the microtask checkpoint

Commit(r, op) ==
  /\ CommitHeap(r, op)
  /\ UNCHANGED <<apiKey, vadSensitivity, data, int16,
                 retry, cooldown, consecutiveRateLimitErrors>>

Task(r, op) == Commit(Drain(r), op)

\* ------------------------------------------------------------------ text
RECURSIVE TrimStart(_)
TrimStart(t) == IF t # <<>> /\ Head(t) = " " THEN TrimStart(Tail(t)) ELSE t

RECURSIVE TrimEnd(_)
TrimEnd(t) ==
  IF t # <<>> /\ t[Len(t)] = " " THEN TrimEnd(SubSeq(t, 1, Len(t) - 1)) ELSE t

\* String.prototype.trim
Trim(t) == TrimEnd(TrimStart(t))

\* ------------------------------------------------------------------ onmessage
\* A LiveServerMessage: every part is optional.  A transcription part is <<>>
\* when absent and <<text>> when present; toolCall is NoTool or the id of its
\* render_image function call; audio is NoAudio, BadAudio or the duration of
\* the chunk.
NoTool == 0

Message(o, i, tc, tool, audio, intr) ==
  [outputTranscription |-> o, inputTranscription |-> i, turnComplete |-> tc,
   toolCall |-> tool, audio |-> audio, interrupted |-> intr]

\* onmessage from the audio part on: `await playAudioChunk`, then the
\* interrupted flag (skipped when playAudioChunk rejected)
MessageTail(r, m, recv) ==
  LET r1 == IF m.audio # NoAudio THEN playAudioChunk(r, m.audio, recv) ELSE r
  IN  IF r1.exc
        THEN [r1 EXCEPT !.exc = FALSE]
      ELSE IF m.interrupted THEN interruptAndClearAudioQueue(r1)
      ELSE r1

\* the updater pushing the model entry before the user entry
FlushTurn_ModelFirst(prev, fullInput, fullOutput) ==
  prev \o (IF fullOutput # <<>>
             THEN <<[speaker |-> "model", text |-> fullOutput,
                     isLoading |-> FALSE, id |-> NoTool]>>
             ELSE <<>>)
       \o (IF fullInput # <<>>
             THEN <<[speaker |-> "user", text |-> fullInput,
                     isLoading |-> FALSE, id |-> NoTool]>>
             ELSE <<>>)

\* the setTranscript updater of the turnComplete branch
FlushTurn(prev, fullInput, fullOutput) ==
  prev \o (IF fullInput # <<>>
             THEN <<[speaker |-> "user", text |-> fullInput,
                     isLoading |-> FALSE, id |-> NoTool]>>
             ELSE <<>>)
       \o (IF fullOutput # <<>>
             THEN <<[speaker |-> "model", text |-> fullOutput,
                     isLoading |-> FALSE, id |-> NoTool]>>
             ELSE <<>>)

\* onmessage, "Handle transcription": the delta of the message is appended
\* to its accumulator
AppendDeltas(r, m) ==
  IF m.outputTranscription # <<>>
    THEN [r EXCEPT !.currentOutputTranscriptionRef = @ \o m.outputTranscription[1]]
  ELSE IF m.inputTranscription # <<>>
    THEN [r EXCEPT !.currentInputTranscriptionRef = @ \o m.inputTranscription[1]]
  ELSE r

\* the history of the turn: the deltas of the message, and at turnComplete
\* the trimmed texts of the turn (input, output), the trimmed accumulators
\* as the turnComplete branch reads them (fullInput, fullOutput) and whether
\* the message brought an input delta after an output delta of the turn
\* (inputLast)
TurnHistory(r, m) ==
  LET r1 == [r EXCEPT
              !.turnOut = IF m.outputTranscription # <<>>
                            THEN @ \o m.outputTranscription[1] ELSE @,
              !.turnIn = IF m.inputTranscription # <<>>
                           THEN @ \o m.inputTranscription[1] ELSE @]
      acc == AppendDeltas(r, m)
  IN  IF m.turnComplete
        THEN [r1 EXCEPT !.flush = <<[input |-> Trim(r1.turnIn),
                                     output |-> Trim(r1.turnOut),
                                     fullInput |-> Trim(acc.currentInputTranscriptionRef),
                                     fullOutput |-> Trim(acc.currentOutputTranscriptionRef),
                                     inputLast |-> /\ m.inputTranscription # <<>>
                                                   /\ m.outputTranscription = <<>>
                                                   /\ r.turnOut # <<>>]>>,
                        !.turnIn = <<>>, !.turnOut = <<>>]
      ELSE r1

onmessage(r, m) ==
  LET r1 == AppendDeltas(r, m)
      r2 == IF m.turnComplete
              THEN [r1 EXCEPT
                     !.transcript = FlushTurn(@, Trim(r1.currentInputTranscriptionRef),
                                                 Trim(r1.currentOutputTranscriptionRef)),
                     !.currentInputTranscriptionRef = <<>>,
                     !.currentOutputTranscriptionRef = <<>>]
            ELSE r1
  IN  IF m.toolCall # NoTool
        THEN \* the placeholder entry, then `await generateImage(prompt)`
             [r2 EXCEPT
               !.transcript = Append(@, [speaker |-> "model", text |-> <<"g">>,
                                         isLoading |-> TRUE, id |-> m.toolCall]),
               !.pendingTool = Append(@, [m |-> m, intr |-> FALSE,
                                          at |-> IF m.audio # NoAudio THEN r2.now
                                                 ELSE 0])]
      ELSE MessageTail(r2, m, [intr |-> FALSE, at |-> r2.now])

\* onmessage from the return of generateImage on: the placeholder entry is
\* replaced, then the audio part and the interrupted flag of the same message
\* are handled.  `h` is the suspended handler, `image` says whether
\* generateImage returned an image.  (The tool response goes out through
\* sessionPromiseRef.then(session => session.sendToolResponse(..)): that
\* continuation writes to the socket and to nothing the model holds.)
onmessageResume(r, h, image) ==
  LET turnId == h.m.toolCall
      r1 == [r EXCEPT !.transcript =
               [j \in DOMAIN @ |->
                  IF @[j].id = turnId
                    THEN [speaker |-> "model",
                          text |-> IF image THEN <<"p">> ELSE <<"f">>,
                          isLoading |-> FALSE, id |-> turnId]
                    ELSE @[j]]]
  IN  MessageTail(r1, h.m, [intr |-> h.intr, at |-> h.at])

\* ------------------------------------------------------------------ onopen
onopen(r) ==
  LET r1 == [r EXCEPT !.connectionState = "connected"]
  IN  IF r1.inputAudioContextRef = 0 \/ r1.streamRef = 0
        THEN r1    \* createMediaStreamSource throws a TypeError
      ELSE
        LET g == FreshId(r1.nodes["scriptProcessor"])
        IN  drawVisualizer(
              [r1 EXCEPT !.nodes = [k \in NodeKinds |-> [@[k] EXCEPT ![g] = "connected"]],
                         !.mediaStreamSourceRef = g, !.inputGainNodeRef = g,
                         !.analyserRef = g, !.scriptProcessorRef = g])

\* ------------------------------------------------------------------ onaudioprocess
\* `speaking` is isPotentiallySpeaking of the frame.  (The frame goes out
\* through sessionPromiseRef.then(session => session.sendRealtimeInput(..)):
\* that continuation writes to the socket and to nothing the model holds.)
\* onaudioprocess comparing the streaks with `>` where the code has `>=`
onaudioprocess_Strict(r, speaking, thresholds) ==
  IF speaking
    THEN [r EXCEPT !.speechConsecutiveBuffersRef = @ + 1,
                   !.silenceConsecutiveBuffersRef = 0,
                   !.vadStateRef =
                      IF r.speechConsecutiveBuffersRef + 1 > thresholds.speechBuffers
                        THEN "SPEAKING" ELSE @]
  ELSE [r EXCEPT !.silenceConsecutiveBuffersRef = @ + 1,
                 !.speechConsecutiveBuffersRef = 0,
                 !.vadStateRef =
                    IF r.silenceConsecutiveBuffersRef + 1 > thresholds.silenceBuffers
                      THEN "SILENCE" ELSE @]

\* onaudioprocess leaving the streak of the other kind as it is
onaudioprocess_KeepsStreak(r, speaking, thresholds) ==
  IF speaking
    THEN [r EXCEPT !.speechConsecutiveBuffersRef = @ + 1,
                   !.vadStateRef =
                      IF r.speechConsecutiveBuffersRef + 1 >= thresholds.speechBuffers
                        THEN "SPEAKING" ELSE @]
  ELSE [r EXCEPT !.silenceConsecutiveBuffersRef = @ + 1,
                 !.vadStateRef =
                    IF r.silenceConsecutiveBuffersRef + 1 >= thresholds.silenceBuffers
                      THEN "SILENCE" ELSE @]

\* the VAD state
Vad(r) ==
  <<r.vadStateRef, r.speechConsecutiveBuffersRef, r.silenceConsecutiveBuffersRef>>

\* sessionPromiseRef.current?.then(..) putting the callback ahead of the
\* callbacks that wait already
sendRealtimeInputLater_Front(r, n) ==
  LET s == r.sessionPromiseRef
      c == [k |-> "send", s |-> s, n |-> n]
      r1 == [r EXCEPT !.handed = <<[n |-> n, vad |-> Vad(r)]>>]
  IN  IF s = 0 THEN r
      ELSE CASE r.promise[s] = "resolved" -> [r1 EXCEPT !.mt = <<c>> \o @]
             [] r.promise[s] = "rejected" -> r1
             [] OTHER -> [r1 EXCEPT !.waiters[s] = <<c>> \o @]

\* onaudioprocess, the end: frame n goes out through
\* sessionPromiseRef.current?.then(session => session.sendRealtimeInput(..)):
\* the callback runs as a microtask when the promise is fulfilled, waits
\* behind the callbacks registered before it while the promise is pending,
\* and never runs when the promise is rejected
sendRealtimeInputLater(r, n) ==
  LET s == r.sessionPromiseRef
      c == [k |-> "send", s |-> s, n |-> n]
      r1 == [r EXCEPT !.handed = <<[n |-> n, vad |-> Vad(r)]>>]
  IN  IF s = 0 THEN r
      ELSE CASE r.promise[s] = "resolved" -> [r1 EXCEPT !.mt = Append(@, c)]
             [] r.promise[s] = "rejected" -> r1
             [] OTHER -> [r1 EXCEPT !.waiters[s] = Append(@, c)]

onaudioprocess(r, speaking, thresholds) ==
  LET r1 == IF speaking
              THEN [r EXCEPT !.speechConsecutiveBuffersRef = @ + 1,
                             !.silenceConsecutiveBuffersRef = 0,
                             !.vadStateRef =
                                IF r.speechConsecutiveBuffersRef + 1 >= thresholds.speechBuffers
                                  THEN "SPEAKING" ELSE @]
            ELSE [r EXCEPT !.silenceConsecutiveBuffersRef = @ + 1,
                           !.speechConsecutiveBuffersRef = 0,
                           !.vadStateRef =
                              IF r.silenceConsecutiveBuffersRef + 1 >= thresholds.silenceBuffers
                                THEN "SILENCE" ELSE @]
  IN  r1

\* ------------------------------------------------------------------ initial state
None == [i \in Ids |-> "none"]
Zero == [i \in Ids |-> 0]

InitSession ==
  /\ connectionState = "idle"
  /\ error = "none"
  /\ transcript = <<>>
  /\ apiKey \in BOOLEAN
  /\ vadSensitivity = "medium"
  /\ mounted = TRUE
  /\ audioDevicesKnown = FALSE
  /\ starts = None
  /\ streamRef = 0 /\ sessionPromiseRef = 0
  /\ inputAudioContextRef = 0 /\ outputAudioContextRef = 0
  /\ mediaStreamSourceRef = 0 /\ inputGainNodeRef = 0
  /\ analyserRef = 0 /\ scriptProcessorRef = 0
  /\ tracks = None /\ trackStops = Zero
  /\ inputCtx = None /\ outputCtx = None
  /\ nodes = [k \in NodeKinds |-> None]
  /\ nodeDisconnects = [k \in NodeKinds |-> Zero]
  /\ promise = None /\ transport = None /\ closeCalls = Zero
  /\ waiters = [i \in Ids |-> <<>>]
  /\ vadStateRef = "SILENCE"
  /\ speechConsecutiveBuffersRef = 0 /\ silenceConsecutiveBuffersRef = 0
  /\ currentInputTranscriptionRef = <<>> /\ currentOutputTranscriptionRef = <<>>
  /\ nextStartTimeRef = 0 /\ audioSourcesRef = {}
  /\ animationFrameIdRef = 0 /\ rafPending = {} /\ canvasDrawn = FALSE
  /\ now = 0 /\ ctxBorn = Zero
  /\ pendingTool = <<>>
  /\ ev = [op |-> "init", fin |-> 0, thr |-> 0, from |-> "idle", idle |-> TRUE,
           stops |-> 0, stream |-> 0, graph |-> 0, ictx |-> 0, octx |-> 0,
           gap |-> FALSE, cleared |-> FALSE, many |-> FALSE, lastEnd |-> NoStart,
           run |-> NoRun, brk |-> FALSE, flip |-> FALSE,
           turnIn |-> <<>>, turnOut |-> <<>>, flush |-> <<>>,
           frames |-> 0, handed |-> <<>>, sent |-> <<>>,
           stopped |-> FALSE]

\* createBlob has not been called
NoBlob == data = <<>> /\ int16 = <<>>

\* the result of fn when it fulfils; an error is a record of its status and
\* of whether its message mentions a quota
Fulfilled == [status |-> 200, quota |-> FALSE]

\* retryWithBackoff has not been called
NoRetry ==
  /\ retry = [retries |-> 0, attempt |-> 0, at |-> "none", thrown |-> Fulfilled,
               results |-> <<>>]
  /\ cooldown = FALSE
  /\ consecutiveRateLimitErrors = 0

Init == InitSession /\ NoBlob /\ NoRetry

\* ------------------------------------------------------------------ tasks
\* handleToggleConversation in idle / error: startConversation up to
\* `await getUserMedia`, or through the catch block when the key is missing
UserStart(limit) ==
  /\ mounted
  /\ connectionState \in {"idle", "error"}
  /\ \E i \in Ids \cap (1..limit) :
       /\ starts[i] = "none"
       /\ \A j \in Ids : j < i => starts[j] # "none"
       /\ LET r1 == [Cur EXCEPT !.error = "none", !.transcript = <<>>,
                                !.connectionState = "connecting",
                                !.turnIn = <<>>, !.turnOut = <<>>]
          IN  IF ~apiKey
                THEN Task(StartCatch([r1 EXCEPT !.starts[i] = "done"]), "start")
              ELSE Task([r1 EXCEPT !.starts[i] =
                           IF audioDevicesKnown THEN "gumKnown" ELSE "gum"], "start")

\* getUserMedia resolves: the stream is stored, then enumerateDevices is
\* awaited (first time) or the contexts are created and connect is called
GumResolve(i, outcome) ==
  /\ starts[i] \in {"gum", "gumKnown"}
  /\ LET k  == FreshId(tracks)
         r1 == [Cur EXCEPT !.tracks[k] = "live", !.streamRef = k]
     IN  IF starts[i] = "gum"
           THEN /\ outcome = "ok"
                /\ Task([r1 EXCEPT !.starts[i] = "enum"], "gum")
         ELSE Task(CreateContextsAndConnect([r1 EXCEPT !.starts[i] = "done"], outcome), "gum")

\* enumerateDevices resolves
EnumResolve(i, outcome) ==
  /\ starts[i] = "enum"
  /\ Task(CreateContextsAndConnect([Cur EXCEPT !.starts[i] = "done",
                                               !.audioDevicesKnown = TRUE], outcome),
          "enum")

\* getUserMedia or enumerateDevices rejects: the catch block
StartReject(i) ==
  /\ starts[i] \in {"gum", "gumKnown", "enum"}
  /\ Task(StartCatch([Cur EXCEPT !.starts[i] = "done"]), "startReject")

\* transport: the socket opens, the onopen callback runs
OnOpen(s) ==
  /\ transport[s] = "connecting"
  /\ Task(onopen([Cur EXCEPT !.transport[s] = "open"]), "onopen")

\* transport: the promise of ai.live.connect is fulfilled
PromiseResolve(s) ==
  /\ promise[s] = "pending"
  /\ transport[s] \notin {"none", "connecting"}
  /\ Task([Cur EXCEPT !.promise[s] = "resolved", !.mt = waiters[s],
                      !.waiters[s] = <<>>], "resolve")

\* transport: the promise of ai.live.connect is rejected
PromiseReject(s) ==
  /\ promise[s] = "pending"
  /\ transport[s] = "connecting"
  /\ Task([Cur EXCEPT !.promise[s] = "rejected", !.transport[s] = "closed",
                      !.mt = [j \in DOMAIN waiters[s] |->
                                IF waiters[s][j].k = "stop"
                                  THEN [waiters[s][j] EXCEPT !.k = "stopThrow"]
                                  ELSE [waiters[s][j] EXCEPT !.k = "drop"]],
                      !.waiters[s] = <<>>], "reject")

\* transport: onerror callback
OnError(s) ==
  /\ transport[s] \in {"connecting", "open"}
  /\ LET r1 == stopConversation([Cur EXCEPT !.error = "conversation",
                                            !.transport[s] = "errored"])
     IN  Task([r1 EXCEPT !.connectionState = "error"], "onerror")

\* onclose handled the way onerror is
OnClose_AsError(s) ==
  /\ transport[s] \in {"open", "errored", "closing"}
  /\ LET r1 == stopConversation([Cur EXCEPT !.error = "conversation",
                                            !.transport[s] = "closed"])
     IN  Task([r1 EXCEPT !.connectionState = "error"], "onclose")

\* transport: onclose callback
OnClose(s) ==
  /\ transport[s] \in {"open", "errored", "closing"}
  /\ Task(stopConversation([Cur EXCEPT !.transport[s] = "closed"]), "onclose")

\* room for one more continuation parked on the pending session promise
CanPark ==
  IF sessionPromiseRef = 0 THEN TRUE
  ELSE IF promise[sessionPromiseRef] # "pending" THEN TRUE
  ELSE Len(waiters[sessionPromiseRef]) < MaxWaiters

\* transport: onmessage callback
OnMessage(s, m, units) ==
  /\ transport[s] = "open"
  /\ promise[s] = "resolved"
  /\ (m.outputTranscription # <<>> \/ m.inputTranscription # <<>>)
       => Len(currentInputTranscriptionRef) + Len(currentOutputTranscriptionRef) < MaxText
  /\ (m.turnComplete \/ m.toolCall # NoTool) => Len(transcript) < MaxLog
  /\ m.audio > 0 => Cardinality(audioSourcesRef) < units
  /\ m.toolCall # NoTool => Len(pendingTool) < MaxTools
  /\ Task(onmessage(Cur, m), "onmessage")

\* the same for a message of transcription deltas, with the history of the
\* turn; the accumulators hold up to `limit` characters
TurnMessage(s, m, limit) ==
  /\ transport[s] = "open"
  /\ promise[s] = "resolved"
  /\ (m.outputTranscription # <<>> \/ m.inputTranscription # <<>>)
       => Len(currentInputTranscriptionRef) + Len(currentOutputTranscriptionRef) < limit
  /\ m.turnComplete => Len(transcript) < MaxLog
  /\ Task(onmessage(TurnHistory(Cur, m), m), "onmessage")

\* generateImage returns to the j-th suspended onmessage handler
GenerateImageDone(j, image) ==
  /\ j \in DOMAIN pendingTool
  /\ pendingTool[j].m.audio > 0 => Cardinality(audioSourcesRef) < MaxQueue
  /\ LET h == pendingTool[j]
         r == [Cur EXCEPT !.pendingTool =
                 SubSeq(@, 1, j - 1) \o SubSeq(@, j + 1, Len(@))]
     IN  Task(onmessageResume(r, h, image), "image")

\* the audio clock advances
Tick ==
  /\ now < MaxClock
  /\ \E c \in Ids : outputCtx[c] = "open"
  /\ Task([Cur EXCEPT !.now = @ + 1], "tick")

\* the 'ended' listener also resetting the cursor
Ended_ResetsCursor(u) ==
  /\ u \in audioSourcesRef
  /\ currentTime(Cur, u.ctx) >= u.start + u.dur
  /\ Task([Cur EXCEPT !.audioSourcesRef = @ \ {u}, !.nextStartTimeRef = 0], "ended")

\* the 'ended' listener of source u: its buffer has played to the end
Ended(u) ==
  /\ u \in audioSourcesRef
  /\ currentTime(Cur, u.ctx) >= u.start + u.dur
  /\ Task([Cur EXCEPT !.audioSourcesRef = @ \ {u}], "ended")

\* handleToggleConversation while connected: stopConversation
UserStop ==
  /\ mounted
  /\ connectionState = "connected"
  /\ CanPark
  /\ Task(stopConversation(Cur), "stop")

\* the cleanup of the unmount effect: stopConversation
Unmount ==
  /\ mounted
  /\ Task(stopConversation([Cur EXCEPT !.mounted = FALSE]), "unmount")

\* the browser runs the requested animation frame of draw loop l
AnimationFrame(l) ==
  /\ l \in rafPending
  /\ Task(draw([Cur EXCEPT !.rafPending = @ \ {l}], l), "draw")

\* the capture graph delivers one frame to scriptProcessor.onaudioprocess
AudioFrame(speaking) ==
  /\ \E g \in Ids : nodes["scriptProcessor"][g] = "connected"
  /\ speechConsecutiveBuffersRef < MaxStreak
  /\ silenceConsecutiveBuffersRef < MaxStreak
  /\ Task(onaudioprocess(Cur, speaking, VAD_THRESHOLDS[vadSensitivity]), "frame")

\* the same, with streaks of up to MaxFrames frames and with the history of the
\* frames: the run of consecutive frames of one kind the frame belongs to,
\* whether it ended a run of the other kind, whether it changed vadStateRef
CountedFrame(speaking) ==
  /\ \E g \in Ids : nodes["scriptProcessor"][g] = "connected"
  /\ speechConsecutiveBuffersRef < MaxFrames
  /\ silenceConsecutiveBuffersRef < MaxFrames
  /\ LET r  == [Cur EXCEPT
                  !.run = IF @.speaking = speaking /\ @.n > 0
                            THEN [@ EXCEPT !.n = IF @ < MaxFrames THEN @ + 1 ELSE @]
                          ELSE [speaking |-> speaking, n |-> 1],
                  !.brk = (ev.run.n > 0 /\ ev.run.speaking # speaking)]
         r1 == onaudioprocess(r, speaking, VAD_THRESHOLDS[vadSensitivity])
     IN  Task([r1 EXCEPT !.flip = (r1.vadStateRef # vadStateRef)], "frame")

\* the same, the frames numbered in the order the capture graph produces
\* them, with the history of the hand-off to the transport
NumberedFrame(speaking) ==
  /\ \E g \in Ids : nodes["scriptProcessor"][g] = "connected"
  /\ speechConsecutiveBuffersRef < MaxStreak
  /\ silenceConsecutiveBuffersRef < MaxStreak
  /\ ev.frames < MaxSends
  /\ CanPark
  /\ LET n == ev.frames + 1
         r == onaudioprocess([Cur EXCEPT !.frames = n], speaking,
                             VAD_THRESHOLDS[vadSensitivity])
     IN  Task(sendRealtimeInputLater(r, n), "frame")

\* the sensitivity select of the settings, enabled while connectionState is
\* idle or error (the handlers of a session keep the value their
\* startConversation call captured: the value is changed while no call is in
\* progress and no session or capture graph is left)
SetVadSensitivity(tier) ==
  /\ mounted
  /\ connectionState \in {"idle", "error"}
  /\ tier # vadSensitivity
  /\ \A i \in Ids :
       /\ starts[i] \in {"none", "done"}
       /\ transport[i] \in {"none", "closed"}
       /\ nodes["scriptProcessor"][i] # "connected"
  /\ vadSensitivity' = tier
  /\ UNCHANGED <<apiKey, data, int16, retry, cooldown, consecutiveRateLimitErrors>>
  /\ CommitHeap(Cur, "setVadSensitivity")

\* ------------------------------------------------------------------ createBlob
\* A sample is a multiple of 1 / SampleScale: the value k stands for the
\* float k / SampleScale, so that SampleScale stands for 1.0 and
\* data[i] * 32768 has a fractional part for three values of k in four.
SampleScale == 4 * 32768

\* the samples of [-1, 1] within MaxSpread steps of -1, of 0 and of 1
Samples ==
  (-SampleScale .. (MaxSpread - SampleScale))
    \cup ((-MaxSpread) .. MaxSpread)
    \cup ((SampleScale - MaxSpread) .. SampleScale)

\* the integer part of n / d, d > 0: truncation toward zero
Truncate(n, d) == IF n >= 0 THEN n \div d ELSE -((-n) \div d)

\* the integer part of data[i] * 32768 for the sample k / SampleScale
\* (k * 32768 / SampleScale is k / (SampleScale / 32768))
Times32768(k) == Truncate(k, SampleScale \div 32768)

\* the store of a number with integer part x into an Int16Array element:
\* x modulo 2^16, taken as a signed 16-bit value
ToInt16(x) ==
  LET m == x % 65536
  IN  IF m >= 32768 THEN m - 65536 ELSE m

\* createBlob: int16[i] = data[i] * 32768 for every sample
createBlob(d) ==
  [i \in DOMAIN d |-> ToInt16(Times32768(d[i]))]

\* createBlob is called on a buffer of one sample
CreateBlob ==
  /\ data # <<>> /\ int16 = <<>>
  /\ int16' = createBlob(data)
  /\ UNCHANGED <<sessionVars, data, retry, cooldown, consecutiveRateLimitErrors>>

InitBlob ==
  /\ InitSession /\ NoRetry
  /\ \E k \in Samples : data = <<k>>
  /\ int16 = <<>>

SpecBlob == InitBlob /\ [][CreateBlob]_vars

\* ------------------------------------------------------------------ retryWithBackoff
\* the errors fn rejects with: by status, and by whether the message
\* mentions a quota
Errors == [status : {402, 429, 500, 503}, quota : BOOLEAN]

isQuotaExceeded(e) == e.quota \/ e.status = 402
isRateLimit(e) == e.status = 429
isServiceUnavailable(e) == e.status = 503

\* shouldRetry with `attempt < retries`
shouldRetry_OneLess(retries, attempt, e) ==
  retries > 0 /\ attempt < retries /\ (isRateLimit(e) \/ isServiceUnavailable(e))

shouldRetry(retries, attempt, e) ==
  retries > 0 /\ attempt <= retries /\ (isRateLimit(e) \/ isServiceUnavailable(e))

\* the top of the loop: the global cooldown is waited for, or fn is called
RetryLoop ==
  /\ retry.at = "loop"
  /\ retry' = [retry EXCEPT !.at = IF cooldown THEN "cooldown" ELSE "fn"]
  /\ UNCHANGED <<sessionVars, data, int16, cooldown, consecutiveRateLimitErrors>>

\* the timer of the cooldown wait fires: the cooldown is over, fn is called
RetryCooldownOver ==
  /\ retry.at = "cooldown"
  /\ retry' = [retry EXCEPT !.at = "fn"]
  /\ cooldown' = FALSE
  /\ UNCHANGED <<sessionVars, data, int16, consecutiveRateLimitErrors>>

\* fn fulfils: the result is returned
RetryFnFulfils ==
  /\ retry.at = "fn"
  /\ retry' = [retry EXCEPT !.at = "returned", !.results = Append(@, Fulfilled)]
  /\ consecutiveRateLimitErrors' =
       IF consecutiveRateLimitErrors > 0 THEN Max(0, consecutiveRateLimitErrors - 1)
       ELSE consecutiveRateLimitErrors
  /\ UNCHANGED <<sessionVars, data, int16, cooldown>>

\* fn rejects with e: the catch block
RetryFnRejects(e) ==
  /\ retry.at = "fn"
  /\ LET attempt == retry.attempt + 1
         r == [retry EXCEPT !.attempt = attempt, !.results = Append(@, e)]
     IN  IF isQuotaExceeded(e)
           THEN /\ retry' = [r EXCEPT !.at = "threw", !.thrown = e]
                /\ cooldown' = TRUE
                /\ UNCHANGED consecutiveRateLimitErrors
         ELSE IF shouldRetry(retry.retries, attempt, e)
           THEN /\ retry' = [r EXCEPT !.at = "backoff"]
                /\ cooldown' = (cooldown \/ isRateLimit(e))
                /\ consecutiveRateLimitErrors' =
                     IF isRateLimit(e) THEN consecutiveRateLimitErrors + 1
                     ELSE consecutiveRateLimitErrors
         ELSE /\ retry' = [r EXCEPT !.at = "threw", !.thrown = e]
              /\ UNCHANGED <<cooldown, consecutiveRateLimitErrors>>
  /\ UNCHANGED <<sessionVars, data, int16>>

\* the timer of the backoff wait fires: `continue`.  `over` says whether the
\* global cooldown has ended meanwhile
RetryBackoffOver(over) ==
  /\ retry.at = "backoff"
  /\ retry' = [retry EXCEPT !.at = "loop"]
  /\ cooldown' = (cooldown /\ ~over)
  /\ UNCHANGED <<sessionVars, data, int16, consecutiveRateLimitErrors>>

\* retryWithBackoff(fn, retries) is called, the globals being what earlier
\* calls left
InitRetry ==
  /\ InitSession /\ NoBlob
  /\ \E n \in 0 .. MaxRetries :
       retry = [retries |-> n, attempt |-> 0, at |-> "loop", thrown |-> Fulfilled,
                results |-> <<>>]
  /\ cooldown \in BOOLEAN
  /\ consecutiveRateLimitErrors \in {0, 1}

NextRetry ==
  \/ RetryLoop
  \/ RetryCooldownOver
  \/ RetryFnFulfils
  \/ \E e \in Errors : RetryFnRejects(e)
  \/ \E over \in BOOLEAN : RetryBackoffOver(over)

\* fn settles and the timers fire
SpecRetry == InitRetry /\ [][NextRetry]_vars /\ WF_vars(NextRetry)

\* ------------------------------------------------------------------ session specification
SessionMessages ==
  { Message(o, i, tc, NoTool, a, n) :
      o \in {<<>>, <<<<"a">>>>}, i \in {<<>>}, tc \in BOOLEAN,
      a \in {NoAudio, 1}, n \in BOOLEAN }

Next ==
  \/ UserStart(MaxStarts)
  \/ \E i \in Ids, o \in {"ok", "throwInput", "throwOutput"} : GumResolve(i, o)
  \/ \E i \in Ids, o \in {"ok", "throwInput", "throwOutput"} : EnumResolve(i, o)
  \/ \E i \in Ids : StartReject(i)
  \/ \E s \in Ids : OnOpen(s)
  \/ \E s \in Ids : PromiseResolve(s)
  \/ \E s \in Ids : PromiseReject(s)
  \/ \E s \in Ids : OnError(s)
  \/ \E s \in Ids : OnClose(s)
  \/ \E s \in Ids, m \in SessionMessages : OnMessage(s, m, MaxUnits)
  \/ UserStop
  \/ Unmount
  \/ \E b \in BOOLEAN : AudioFrame(b)

Spec == Init /\ [][Next]_vars

\* ------------------------------------------------------------------ session specification with fairness
\* The browser settles what startConversation waits for: getUserMedia and
\* enumerateDevices settle, and the connection attempt ends (the socket
\* opens or connect rejects; the promise of an opened session is fulfilled).
\* The user's actions, the messages, the frames and the reports of a failing
\* transport are under no obligation.
DeviceSettles ==
  \E i \in Ids :
    \/ \E o \in {"ok", "throwInput", "throwOutput"} : GumResolve(i, o) \/ EnumResolve(i, o)
    \/ StartReject(i)

ConnectionSettles ==
  \E s \in Ids : OnOpen(s) \/ PromiseReject(s) \/ PromiseResolve(s)

TransportReports ==
  \E s \in Ids : OnError(s) \/ OnClose(s)

NextLive ==
  \/ UserStart(MaxStarts)
  \/ DeviceSettles
  \/ ConnectionSettles
  \/ TransportReports
  \/ \E s \in Ids, m \in SessionMessages : OnMessage(s, m, MaxUnits)
  \/ UserStop
  \/ \E b \in BOOLEAN : AudioFrame(b)

SpecLive ==
  /\ Init /\ [][NextLive]_vars
  /\ WF_vars(DeviceSettles)
  /\ WF_vars(ConnectionSettles)

\* ------------------------------------------------------------------ restart specification
\* the same tasks, with a second startConversation call
NextRestart ==
  \/ UserStart(MaxRestarts)
  \/ \E i \in Ids, o \in {"ok", "throwInput", "throwOutput"} : GumResolve(i, o)
  \/ \E i \in Ids, o \in {"ok", "throwInput", "throwOutput"} : EnumResolve(i, o)
  \/ \E i \in Ids : StartReject(i)
  \/ \E s \in Ids : OnOpen(s)
  \/ \E s \in Ids : PromiseResolve(s)
  \/ \E s \in Ids : PromiseReject(s)
  \/ \E s \in Ids : OnError(s)
  \/ \E s \in Ids : OnClose(s)
  \/ \E s \in Ids, m \in SessionMessages : OnMessage(s, m, MaxUnits)
  \/ UserStop
  \/ Unmount
  \/ \E b \in BOOLEAN : AudioFrame(b)

SpecRestart == Init /\ [][NextRestart]_vars

\* ------------------------------------------------------------------ playback specification
\* sessions with the audio clock, the 'ended' notifications and the tool
\* calls, each session ended by the transport's onclose.  Messages carry an
\* audio chunk of duration 1 or 2 and the interrupted flag, or a render_image
\* call with an audio chunk.
PlaybackMessages ==
  { Message(<<>>, <<>>, FALSE, NoTool, a, n) :
      a \in {NoAudio, 1, 2}, n \in BOOLEAN }
  \cup { Message(<<>>, <<>>, FALSE, 1, 1, FALSE) }

NextPlayback ==
  \/ UserStart(MaxStarts)
  \/ \E i \in Ids : GumResolve(i, "ok")
  \/ \E i \in Ids : EnumResolve(i, "ok")
  \/ \E s \in Ids : OnOpen(s)
  \/ \E s \in Ids : PromiseResolve(s)
  \/ \E s \in Ids : OnClose(s)
  \/ \E s \in Ids, m \in PlaybackMessages : OnMessage(s, m, MaxQueue)
  \/ \E j \in 1..MaxTools : GenerateImageDone(j, TRUE)
  \/ Tick
  \/ \E u \in audioSourcesRef : Ended(u)

SpecPlayback == Init /\ [][NextPlayback]_vars

\* ------------------------------------------------------------------ scheduler specification
\* sessions with the audio clock and the 'ended' notifications, ended by the
\* user, by the transport or by the unmount.  Messages carry an audio chunk of
\* duration 1 or 2 or undecodable data, and the interrupted flag.
ScheduleMessages ==
  { Message(<<>>, <<>>, FALSE, NoTool, a, n) :
      a \in {NoAudio, BadAudio, 1, 2}, n \in BOOLEAN }

NextSchedule ==
  \/ UserStart(MaxStarts)
  \/ \E i \in Ids : GumResolve(i, "ok")
  \/ \E i \in Ids : EnumResolve(i, "ok")
  \/ \E s \in Ids : OnOpen(s)
  \/ \E s \in Ids : PromiseResolve(s)
  \/ \E s \in Ids : OnClose(s)
  \/ \E s \in Ids, m \in ScheduleMessages : OnMessage(s, m, MaxQueue)
  \/ Tick
  \/ \E u \in audioSourcesRef : Ended(u)
  \/ UserStop
  \/ Unmount

SpecSchedule == Init /\ [][NextSchedule]_vars

\* ------------------------------------------------------------------ turn specification
\* sessions, one after the other, whose messages carry a transcription delta
\* of one speaker (a letter or a blank) or the turnComplete flag
TurnMessages ==
  { Message(o, <<>>, tc, NoTool, NoAudio, FALSE) :
      o \in {<<>>, <<<<"a">>>>, <<<<" ">>>>}, tc \in BOOLEAN }
  \cup { Message(<<>>, i, tc, NoTool, NoAudio, FALSE) :
            i \in {<<<<"a">>>>, <<<<" ">>>>}, tc \in BOOLEAN }

NextTurns ==
  \/ UserStart(MaxRestarts)
  \/ \E i \in Ids : GumResolve(i, "ok")
  \/ \E i \in Ids : EnumResolve(i, "ok")
  \/ \E s \in Ids : OnOpen(s)
  \/ \E s \in Ids : PromiseResolve(s)
  \/ \E s \in Ids : OnClose(s)
  \/ \E s \in Ids, m \in TurnMessages : TurnMessage(s, m, MaxText)
  \/ UserStop

SpecTurns == Init /\ [][NextTurns]_vars

\* ------------------------------------------------------------------ delta specification
\* one session whose messages carry the transcription delta of one speaker,
\* the deltas of both speakers, or none, with or without the turnComplete flag
DeltaMessages ==
  { Message(o, i, tc, NoTool, NoAudio, FALSE) :
      o \in {<<>>, <<<<"a">>>>, <<<<" ">>>>},
      i \in {<<>>, <<<<"a">>>>, <<<<" ">>>>}, tc \in BOOLEAN }

NextDeltas ==
  \/ UserStart(MaxStarts)
  \/ \E i \in Ids : GumResolve(i, "ok")
  \/ \E i \in Ids : EnumResolve(i, "ok")
  \/ \E s \in Ids : OnOpen(s)
  \/ \E s \in Ids : PromiseResolve(s)
  \/ \E s \in Ids, m \in DeltaMessages : TurnMessage(s, m, MaxTurnText)
  \/ UserStop

SpecDeltas == Init /\ [][NextDeltas]_vars

\* ------------------------------------------------------------------ frame specification
\* sessions whose capture graph delivers numbered frames, before and after
\* the session promise is settled, ended by the user or by the transport
NextFrames ==
  \/ UserStart(MaxStarts)
  \/ \E i \in Ids : GumResolve(i, "ok")
  \/ \E i \in Ids : EnumResolve(i, "ok")
  \/ \E s \in Ids : OnOpen(s)
  \/ \E s \in Ids : PromiseResolve(s)
  \/ \E s \in Ids : PromiseReject(s)
  \/ \E s \in Ids : OnError(s)
  \/ \E s \in Ids : OnClose(s)
  \/ UserStop
  \/ \E b \in BOOLEAN : NumberedFrame(b)

SpecFrames == Init /\ [][NextFrames]_vars

\* ------------------------------------------------------------------ visualizer specification
\* sessions, one after the other, with the animation frames of the visualizer
NextVisualizer ==
  \/ UserStart(MaxRestarts)
  \/ \E i \in Ids : GumResolve(i, "ok")
  \/ \E i \in Ids : EnumResolve(i, "ok")
  \/ \E s \in Ids : OnOpen(s)
  \/ \E s \in Ids : PromiseResolve(s)
  \/ \E s \in Ids : OnError(s)
  \/ \E s \in Ids : OnClose(s)
  \/ UserStop
  \/ Unmount
  \/ \E l \in Ids : AnimationFrame(l)

SpecVisualizer == Init /\ [][NextVisualizer]_vars

\* ------------------------------------------------------------------ VAD specification
\* sessions that deliver capture frames in streaks of up to MaxFrames frames,
\* the sensitivity chosen between sessions
NextVad ==
  \/ UserStart(MaxStarts)
  \/ \E i \in Ids : GumResolve(i, "ok")
  \/ \E i \in Ids : EnumResolve(i, "ok")
  \/ \E s \in Ids : OnOpen(s)
  \/ \E s \in Ids : PromiseResolve(s)
  \/ \E s \in Ids : OnClose(s)
  \/ UserStop
  \/ \E b \in BOOLEAN : CountedFrame(b)
  \/ \E tier \in VadSensitivity : SetVadSensitivity(tier)

SpecVad == Init /\ [][NextVad]_vars

\* ------------------------------------------------------------------ state predicates used by the properties
NoHandles ==
  /\ streamRef = 0 /\ sessionPromiseRef = 0
  /\ inputAudioContextRef = 0 /\ outputAudioContextRef = 0
  /\ mediaStreamSourceRef = 0 /\ inputGainNodeRef = 0
  /\ analyserRef = 0 /\ scriptProcessorRef = 0

\* no microphone track is live, no audio context is open, no node is connected
Released ==
  \A i \in Ids :
    /\ tracks[i] # "live"
    /\ inputCtx[i] # "open" /\ outputCtx[i] # "open"
    /\ \A k \in NodeKinds : nodes[k][i] # "connected"

\* no startConversation call is suspended, no continuation is parked, and the
\* transport owes no callback
Quiescent ==
  \A i \in Ids :
    /\ starts[i] \in {"none", "done"}
    /\ waiters[i] = <<>>
    /\ promise[i] # "pending"
    /\ transport[i] \in {"none", "open", "closed"}

VadReset ==
  /\ vadStateRef = "SILENCE"
  /\ speechConsecutiveBuffersRef = 0
  /\ silenceConsecutiveBuffersRef = 0

\* ------------------------------------------------------------------ C1
\* C1: after a transport onerror during a connected session, once the teardown
\* it triggers has finished, connectionState is ERROR and an error message is
\* set.
C1_ErrorAfterOnError ==
  (ev.op = "onerror" /\ ev.from = "connected" /\ ev.fin > 0)
    => (connectionState = "error" /\ error # "none")

\* ------------------------------------------------------------------ C2
\* C2: when startConversation fails before the transport opens (missing key,
\* getUserMedia rejected, AudioContext constructor throwing, connect rejected),
\* then once it has finished connectionState is ERROR, an error message is set
\* and every resource acquired so far is released.
C2_StartFailureEndsInError ==
  /\ (ev.op \in {"start", "gum", "enum", "startReject"} /\ ev.fin > 0)
       => (connectionState = "error" /\ error # "none" /\ NoHandles /\ Released)
  /\ ev.op = "reject"
       => (connectionState = "error" /\ error # "none" /\ NoHandles /\ Released)

\* ------------------------------------------------------------------ C3
\* C3: stopConversation never rejects, in any state; and once a stop has been
\* called and nothing is pending any more, no track is live, no node or
\* context is open, the session reference is cleared and connectionState is
\* IDLE.
C3_StopSafeInAnyState ==
  /\ ev.thr = 0
  /\ (ev.stopped /\ Quiescent)
       => (Released /\ NoHandles /\ connectionState = "idle")

\* ------------------------------------------------------------------ C4
\* C4: two user stops in immediate succession during an active session, the
\* second made before the first has finished: when both have finished, the
\* track of the session's stream was stopped exactly once, every node of its
\* capture graph was disconnected exactly once, no handle remains and neither
\* call rejected.
C4_DoubleStopCase ==
  /\ ev.op = "resolve" /\ ev.stops >= 2 /\ ev.fin >= 2
  /\ ev.stream # 0 /\ ev.graph # 0 /\ ev.ictx # 0 /\ ev.octx # 0

C4_DoubleStopReleasesOnce ==
  C4_DoubleStopCase =>
    /\ ev.thr = 0
    /\ NoHandles
    /\ tracks[ev.stream] = "stopped" /\ trackStops[ev.stream] = 1
    /\ \A k \in NodeKinds :
         nodes[k][ev.graph] = "disconnected" /\ nodeDisconnects[k][ev.graph] = 1
    /\ inputCtx[ev.ictx] = "closed" /\ outputCtx[ev.octx] = "closed"

C4_Witness == C4_DoubleStopCase /\ ev.fin = 2

\* ------------------------------------------------------------------ C5
\* C5: stopConversation called when the session is IDLE and holds nothing does
\* not reject and changes nothing: connectionState stays IDLE, the cursor stays
\* 0, the live set stays empty, the VAD state stays {SILENCE, 0, 0} and the
\* transcript log is untouched.
C5_StopWhenIdleChangesNothing ==
  [][ (ev'.op \in {"onclose", "unmount"} /\ connectionState = "idle" /\ HoldsNothing(Cur))
        => /\ ev'.thr = 0 /\ ev'.fin = 1
           /\ connectionState' = "idle"
           /\ nextStartTimeRef = 0 /\ nextStartTimeRef' = 0
           /\ audioSourcesRef = {} /\ audioSourcesRef' = {}
           /\ VadReset /\ VadReset'
           /\ transcript' = transcript ]_vars

C5_Witness ==
  /\ ev.op \in {"onclose", "unmount"} /\ ev.idle /\ ev.fin = 1
  /\ connectionState = "idle"
  /\ transcript # <<>>

\* ------------------------------------------------------------------ C6
\* C6: after stopConversation has run to its end both turn accumulators are
\* empty.
C6_AccumulatorsEmptyAfterStop ==
  ev.fin > 0
    => (currentInputTranscriptionRef = <<>> /\ currentOutputTranscriptionRef = <<>>)

\* ------------------------------------------------------------------ C7
\* C7: a transport onclose during a connected session never produces ERROR and
\* sets no error message; when the teardown it runs has finished, it is the
\* complete teardown of a stop (no handle held) and connectionState is IDLE.
C7_CloseLandsIdle ==
  [][ (ev'.op = "onclose" /\ connectionState = "connected")
        => /\ connectionState' # "error"
           /\ error = "none" /\ error' = "none"
           /\ ev'.thr = 0
           /\ ev'.fin > 0
                => (connectionState' = "idle" /\ NoHandles') ]_vars

C7_Witness ==
  /\ ev.op = "onclose" /\ ev.from = "connected" /\ ev.fin = 1
  /\ connectionState = "idle" /\ error = "none" /\ NoHandles /\ Released

\* ------------------------------------------------------------------ C8
\* C8: while the component is mounted, connectionState enters CONNECTING only
\* from IDLE or ERROR, and enters CONNECTED only from CONNECTING, in the
\* transport's onopen.
C8_Transitions ==
  [][ mounted' =>
        /\ (connectionState' = "connecting" /\ connectionState # "connecting")
             => connectionState \in {"idle", "error"}
        /\ (connectionState' = "connected" /\ connectionState # "connected")
             => (connectionState = "connecting" /\ ev'.op = "onopen") ]_vars

\* ------------------------------------------------------------------ C9
\* C9: no unit whose chunk was received before an interruption is in the live
\* set (scheduled or playing) after that interruption has run.
C9_InterruptCoversReceived ==
  \A u \in audioSourcesRef : ~u.stale

\* ------------------------------------------------------------------ C10
\* the time at which a unit starts to play: its scheduled start, or the clock
\* time at scheduling if that is later
ActualStart(u) == Max(u.start, u.at)

\* u was scheduled before v
ScheduledBefore(u, v) ==
  u # v /\ (u.at < v.at \/ (u.at = v.at /\ u.start <= v.start))

\* C10: any two units in the live set at the same time have non-overlapping
\* play intervals: the later-scheduled one starts no earlier than the actual
\* start of the earlier one plus the earlier one's duration.
C10_NoOverlap ==
  \A u, v \in audioSourcesRef :
    ScheduledBefore(u, v) => ActualStart(v) >= ActualStart(u) + u.dur

\* two units are live, the later one scheduled after the clock had advanced
\* and a unit had ended
C10_Witness ==
  /\ ev.op = "onmessage"
  /\ \E u, v \in audioSourcesRef :
       ScheduledBefore(u, v) /\ u.at > 0 /\ v.at > u.at /\ v.start = u.start + u.dur

\* ------------------------------------------------------------------ C11
\* C11: chunks are scheduled in the order they were received: of two units in
\* the live set of one context, the one whose chunk was received first starts
\* no later than the other.
C11_ReceiptOrder ==
  \A u, v \in audioSourcesRef :
    (u.ctx = v.ctx /\ u.recv < v.recv) => u.start <= v.start

\* ------------------------------------------------------------------ C12
\* the units a step adds to the live set
Enqueued == audioSourcesRef' \ audioSourcesRef

\* C12: a chunk enqueued with no interruption since the previous chunk and
\* before the clock has passed the previous unit's end is scheduled to start
\* exactly at the previous unit's start plus the previous unit's duration.
C12_BackToBack ==
  [][ \A v \in Enqueued :
        (ev.lastEnd # NoStart /\ v.at <= ev.lastEnd) => v.start = ev.lastEnd ]_vars

\* the third of three chunks enqueued back to back: the second was scheduled
\* ahead of the clock, behind the first, and the third, enqueued after the
\* clock had advanced, starts where the second ends
C12_Witness ==
  /\ ev.op = "onmessage"
  /\ \E u, v \in audioSourcesRef :
       /\ u.start > u.at
       /\ v.at > u.at /\ v.at <= u.start + u.dur
       /\ v.start = u.start + u.dur
       /\ ev.lastEnd = v.start + v.dur

\* ------------------------------------------------------------------ C13
\* C13: a chunk enqueued while the cursor is behind the output clock is
\* scheduled to start at the clock time, and the cursor is then the clock
\* time plus the unit's duration.
C13_UnderrunStartsAtClock ==
  [][ \A v \in Enqueued :
        nextStartTimeRef < v.at
          => (v.start = v.at /\ nextStartTimeRef' = v.at + v.dur) ]_vars

\* a chunk enqueued after the earlier units had played out
C13_Witness ==
  /\ ev.op = "onmessage"
  /\ ev.gap
  /\ \E v \in audioSourcesRef :
       v.start = v.at /\ nextStartTimeRef = v.at + v.dur

\* ------------------------------------------------------------------ C14
\* C14: interruptAndClearAudioQueue leaves the live set empty and the cursor at
\* 0 from any state, a second call changes nothing of that, and a task in
\* which it ran ends with the live set empty and the cursor at 0.
C14_InterruptClears ==
  LET once  == interruptAndClearAudioQueue(Cur)
      twice == interruptAndClearAudioQueue(once)
  IN  /\ once.audioSourcesRef = {} /\ once.nextStartTimeRef = 0 /\ ~once.exc
      /\ twice.audioSourcesRef = once.audioSourcesRef
      /\ twice.nextStartTimeRef = once.nextStartTimeRef
      /\ ~twice.exc
      /\ ev.cleared => (audioSourcesRef = {} /\ nextStartTimeRef = 0)

\* an interruption has stopped two live units
C14_Witness ==
  /\ ev.cleared /\ ev.many
  /\ audioSourcesRef = {}

\* ------------------------------------------------------------------ C15
\* C15: the cursor decreases only in a step in which
\* interruptAndClearAudioQueue ran (on an interruption or in
\* stopConversation), and then it is 0.
C15_CursorMonotone ==
  [][ nextStartTimeRef' < nextStartTimeRef
        => (ev'.cleared /\ nextStartTimeRef' = 0) ]_vars

\* stopConversation has reset the cursor of a queue that held two units, the
\* clock having advanced
C15_Witness ==
  /\ ev.op = "stop"
  /\ ev.cleared /\ ev.many
  /\ nextStartTimeRef = 0
  /\ now > 0

\* ------------------------------------------------------------------ C16
\* a message whose inline audio data cannot be decoded
BadChunk(interrupted) == Message(<<>>, <<>>, FALSE, NoTool, BadAudio, interrupted)

\* C16: onmessage on a message whose chunk fails to decode, in any state in
\* which the session delivers messages: no unit is added, the cursor is not
\* advanced beyond the clock, and the interrupted flag of the same message is
\* still applied.
C16_DecodeFailureContained ==
  (/\ outputAudioContextRef # 0
   /\ \E s \in Ids : transport[s] = "open" /\ promise[s] = "resolved")
    => \A interrupted \in BOOLEAN :
         LET r == onmessage(Cur, BadChunk(interrupted))
         IN  /\ r.audioSourcesRef \subseteq audioSourcesRef
             /\ r.nextStartTimeRef =
                  (IF interrupted THEN 0
                   ELSE Max(nextStartTimeRef, currentTime(Cur, outputAudioContextRef)))
             /\ interrupted => r.cleared

\* ------------------------------------------------------------------ C17
\* C17: under the thresholds of the chosen sensitivity, a frame taken in
\* SILENCE makes the state SPEAKING exactly when it is the
\* speechBuffers-th consecutive speech frame, a frame taken in SPEAKING makes
\* it SILENCE exactly when it is the silenceBuffers-th consecutive non-speech
\* frame, and no other frame changes the state.
C17_Hysteresis ==
  [][ ev'.op = "frame" =>
        LET thresholds == VAD_THRESHOLDS[vadSensitivity]
            run == ev'.run
        IN  /\ (vadStateRef = "SILENCE" /\ run.speaking)
                 => (vadStateRef' = "SPEAKING" <=> run.n = thresholds.speechBuffers)
            /\ (vadStateRef = "SPEAKING" /\ ~run.speaking)
                 => (vadStateRef' = "SILENCE" <=> run.n = thresholds.silenceBuffers)
            /\ (vadStateRef = "SILENCE" /\ ~run.speaking) => vadStateRef' = "SILENCE"
            /\ (vadStateRef = "SPEAKING" /\ run.speaking) => vadStateRef' = "SPEAKING"
    ]_vars

\* under the high sensitivity the fifteenth non-speech frame in a row has ended
\* SPEAKING
C17_Witness ==
  /\ ev.op = "frame" /\ ev.flip
  /\ vadSensitivity = "high"
  /\ vadStateRef = "SILENCE"
  /\ ~ev.run.speaking
  /\ ev.run.n = VAD_THRESHOLDS["high"].silenceBuffers

\* ------------------------------------------------------------------ C18
\* C18: a non-speech frame taken in SILENCE while the speech streak is below
\* the threshold sets the speech streak to 0 and leaves the state SILENCE.
C18_SpuriousSpeechDiscarded ==
  [][ ( /\ ev'.op = "frame" /\ ~ev'.run.speaking
        /\ vadStateRef = "SILENCE"
        /\ speechConsecutiveBuffersRef
             < VAD_THRESHOLDS[vadSensitivity].speechBuffers )
        => (speechConsecutiveBuffersRef' = 0 /\ vadStateRef' = "SILENCE") ]_vars

\* under the low sensitivity a non-speech frame has ended a run of speech
\* frames that was too short to confirm speech
C18_Witness ==
  /\ ev.op = "frame" /\ ev.brk /\ ~ev.flip
  /\ ~ev.run.speaking
  /\ vadSensitivity = "low"
  /\ vadStateRef = "SILENCE"
  /\ speechConsecutiveBuffersRef = 0

\* ------------------------------------------------------------------ C19
\* C19: when onopen has made the session connected, and when a
\* stopConversation call has run to its end, the VAD state is SILENCE with both
\* streaks 0.
C19_VadResetAtSessionBoundaries ==
  /\ (ev.op = "onopen" /\ connectionState = "connected") => VadReset
  /\ ev.fin > 0 => VadReset

\* ------------------------------------------------------------------ C20
\* C20: a step that handles turnComplete appends to the log at most one user
\* entry and at most one model entry, each the trimmed concatenation of the
\* deltas of that speaker received in the turn, and leaves both accumulators
\* empty.
C20_TurnFlush ==
  [][ \A k \in DOMAIN ev'.flush :
        /\ transcript' = FlushTurn(transcript, ev'.flush[k].input, ev'.flush[k].output)
        /\ currentInputTranscriptionRef' = <<>>
        /\ currentOutputTranscriptionRef' = <<>> ]_vars

\* ------------------------------------------------------------------ C21
\* what t holds after its first n elements
Rest(t, n) == SubSeq(t, n + 1, Len(t))

\* C21: every transcription delta a message carries (input, output, or both)
\* is appended to the end of its own accumulator: in a step that handles a
\* message without turnComplete, each accumulator is what it was followed by
\* the delta of its speaker that the message carried.
C21_DeltasAppended ==
  [][ (ev'.op = "onmessage" /\ ev'.flush = <<>>) =>
        /\ currentInputTranscriptionRef'
             = currentInputTranscriptionRef \o Rest(ev'.turnIn, Len(ev.turnIn))
        /\ currentOutputTranscriptionRef'
             = currentOutputTranscriptionRef \o Rest(ev'.turnOut, Len(ev.turnOut)) ]_vars

\* ------------------------------------------------------------------ C22
\* C22: a frame is handed to the transport after it was classified (the
\* hand-off sees the VAD state the frame's classification left), and the
\* sendRealtimeInput calls of a session are made in the order in which the
\* frames were produced, the frames produced before the session promise was
\* fulfilled included.
C22_ClassifiedThenSentInOrder ==
  [][ /\ \A k \in DOMAIN ev'.handed :
           /\ ev'.handed[k].n = ev.frames + 1
           /\ ev'.handed[k].vad = <<vadStateRef', speechConsecutiveBuffersRef',
                                     silenceConsecutiveBuffersRef'>>
      /\ \A j, k \in DOMAIN ev'.sent :
           (j < k /\ ev'.sent[j].s = ev'.sent[k].s) => ev'.sent[j].n < ev'.sent[k].n
    ]_vars

\* two frames produced while the session promise was pending were sent when
\* it was fulfilled, and a third frame after them
C22_Witness ==
  /\ ev.op = "frame"
  /\ ev.sent = <<[s |-> 1, n |-> 1], [s |-> 1, n |-> 2], [s |-> 1, n |-> 3]>>
  /\ vadStateRef = "SPEAKING"

\* ------------------------------------------------------------------ C23
\* C23: once a stopConversation call has run to its end, capture is halted:
\* the next task is not a capture frame (no frame is classified and none is
\* handed to a session before a new session opens), so the VAD state stays
\* {SILENCE, 0, 0}.
C23_CaptureHaltedAfterStop ==
  [][ ev.fin > 0 => (ev'.op # "frame" /\ VadReset') ]_vars

\* ------------------------------------------------------------------ C24
\* C24: when stopConversation has run to its end, and stopVisualizer with
\* it, no animation frame of the visualizer is pending (none will render and
\* none will request another), the stored frame id is null and the canvas,
\* while it is mounted, is cleared.
C24_VisualizerStopped ==
  ev.fin > 0 =>
    /\ rafPending = {}
    /\ animationFrameIdRef = 0
    /\ mounted => ~canvasDrawn

\* ------------------------------------------------------------------ C25
\* C25: session.close() is called at most once on every session, whatever
\* the order of the user's stop, onclose, onerror and the unmount.
C25_CloseAtMostOnce ==
  \A s \in Ids : closeCalls[s] <= 1

\* ------------------------------------------------------------------ C26
\* C26: when the callbacks of the devices, the transport and the promises are
\* run fairly, a session that is CONNECTING eventually is CONNECTED, ERROR or
\* IDLE, also when the connection attempt fails.
C26_ConnectingEnds ==
  (connectionState = "connecting") ~> (connectionState # "connecting")

\* ------------------------------------------------------------------ C27
\* tier a confirms with streaks at least as long as tier b's
LongerStreaks(a, b) ==
  /\ VAD_THRESHOLDS[a].speechBuffers >= VAD_THRESHOLDS[b].speechBuffers
  /\ VAD_THRESHOLDS[a].silenceBuffers >= VAD_THRESHOLDS[b].silenceBuffers

\* the tiers from the least to the most sensitive
Sensitivity == [low |-> 1, medium |-> 2, high |-> 3]

\* C27: the speech and the silence confirmation streaks of the low tier are
\* each at least those of the medium tier, which are each at least those of
\* the high tier: the tier in use confirms with streaks at least as long as
\* those of every more sensitive tier and at most as long as those of every
\* less sensitive tier.
C27_StreaksOrderedByTier ==
  \A t \in VadSensitivity :
    /\ Sensitivity[t] > Sensitivity[vadSensitivity] => LongerStreaks(vadSensitivity, t)
    /\ Sensitivity[t] < Sensitivity[vadSensitivity] => LongerStreaks(t, vadSensitivity)

\* ------------------------------------------------------------------ C28
\* the entries a step appends to the transcript log
Appended == Rest(transcript', Len(transcript))

\* C28: a step that handles turnComplete appends a user entry exactly when
\* the trimmed input accumulator is not empty and a model entry exactly when
\* the trimmed output accumulator is not empty, each with that text, and the
\* user entry comes before the model entry, whatever the order in which the
\* deltas arrived.
C28_UserBeforeModel ==
  [][ \A k \in DOMAIN ev'.flush :
        LET f == ev'.flush[k]
            users  == {j \in DOMAIN Appended : Appended[j].speaker = "user"}
            models == {j \in DOMAIN Appended : Appended[j].speaker = "model"}
        IN  /\ Len(transcript') >= Len(transcript)
            /\ SubSeq(transcript', 1, Len(transcript)) = transcript
            /\ Cardinality(users) = (IF f.fullInput # <<>> THEN 1 ELSE 0)
            /\ Cardinality(models) = (IF f.fullOutput # <<>> THEN 1 ELSE 0)
            /\ \A j \in users : Appended[j].text = f.fullInput
            /\ \A j \in models : Appended[j].text = f.fullOutput
            /\ \A j \in users, i \in models : j < i ]_vars

\* a turn was flushed whose output delta had arrived before its input delta:
\* the log holds the user entry, then the model entry
C28_Witness ==
  /\ ev.op = "onmessage"
  /\ \E k \in DOMAIN ev.flush : ev.flush[k].inputLast
  /\ Len(transcript) = 2
  /\ transcript[1].speaker = "user" /\ transcript[2].speaker = "model"

\* ------------------------------------------------------------------ C29
\* C29: createBlob turns every sample s of [-1, 1] into the signed 16-bit
\* value of s * 32768 truncated toward zero: the value lies in
\* [-32768, 32767], it is the truncated product wherever that is a 16-bit
\* value, and its sign is never opposite to the sign of s (no wrap-around,
\* at s = 1.0 included).
C29_CreateBlobTruncates ==
  \A i \in DOMAIN int16 :
    /\ int16[i] \in -32768 .. 32767
    /\ Times32768(data[i]) \in -32768 .. 32767 => int16[i] = Times32768(data[i])
    /\ data[i] > 0 => int16[i] >= 0
    /\ data[i] < 0 => int16[i] <= 0

\* ------------------------------------------------------------------ C30
\* a quota error; an error that is a rate limit (429) or service unavailable
\* (503) and no quota error
QuotaError(e) == e.quota \/ e.status = 402
Retryable(e) == e.status \in {429, 503} /\ ~QuotaError(e)

\* the call has ended
RetryEnded == retry.at \in {"returned", "threw"}

\* fn was called at most retries + 1 times; every call but the last failed
\* with a retryable error; the call returns after the first fulfilled call
\* and throws the last error, at once when that error is not retryable and
\* after retries + 1 calls when it is.
RetryOutcome ==
  LET results == retry.results
      n == Len(results)
  IN  /\ n <= retry.retries + 1
      /\ \A j \in 1 .. (n - 1) : Retryable(results[j])
      /\ retry.at = "returned" => (n > 0 /\ results[n] = Fulfilled)
      /\ retry.at = "threw" =>
            /\ n > 0 /\ results[n] # Fulfilled /\ retry.thrown = results[n]
            /\ Retryable(results[n]) => n = retry.retries + 1
      /\ (n > 0 /\ ~Retryable(results[n])) => RetryEnded

====
